---------------------------- MODULE Spec2Model ----------------------------
(***************************************************************************)
(* Model of pcsx2/GS/Renderers/Common/GSFunctionMap.h:                     *)
(*   GSFunctionMap<KEY, VALUE>            (operator[], UpdateStats,        *)
(*                                          PrintStats)                    *)
(*   GSCodeGeneratorFunctionMap<CG, KEY, VALUE>  (GetDefaultFunction)      *)
(*                                                                         *)
(* uint64 fields are modelled as words modulo WordMod (the 2^64 of the     *)
(* source scaled down so that wrap-around is reachable); the signed int    *)
(* arguments of UpdateStats are converted to such a word before they are   *)
(* added, as the usual arithmetic conversions do.                          *)
(* ASSERT is modelled as a check that stops the process when it fails.     *)
(***************************************************************************)
EXTENDS Integers, Naturals, Sequences, FiniteSets, TLC

VARIABLES
    m_map_active,      \* std::unordered_map<KEY, ActivePtr*>: key -> ActivePtr
    m_active,          \* ActivePtr* m_active: key of the entry pointed to, or NULL
    m_cgmap,           \* std::unordered_map<uint64, VALUE>: key -> function
    m_cb,              \* GSCodeBuffer: [pos, reserved]
    m_total_code_size, \* size_t m_total_code_size
    fault,             \* "none", or the assertion / trap that stopped the process
    last,              \* the most recent call: [op, key, ret, outcome, size]
    printed,           \* rows printed by the most recent call (PrintStats only)
    h_gen,             \* history: key -> number of GetDefaultFunction calls
    h_emit,            \* history: key -> number of backend (CG) constructions
    h_body,            \* history: key -> code body emitted for the key's function
    h_returned,        \* history: key -> function first returned by operator[]
    h_reserves,        \* history: number of GetBuffer calls
    h_commits,         \* history: sequence of sizes passed to ReleaseBuffer
    h_epochs,          \* history: key -> sequence of epochs routed to its entry
    h_sum,             \* history: key -> exact integer sums of routed arguments
    h_throws,          \* history: number of generations that threw
    h_lookup           \* history: the most recent operator[] call: [key, ok, okkey]

vars == << m_map_active, m_active, m_cgmap, m_cb, m_total_code_size, fault,
           last, printed, h_gen, h_emit, h_body, h_returned, h_reserves,
           h_commits, h_epochs, h_sum, h_throws, h_lookup >>

----------------------------------------------------------------------------
(* Bounds of the model *)

NumKeys == 2        \* keys presented to the cache: 1..NumKeys
WordMod == 65536    \* range of a uint64 word, scaled down from 2^64
MaxCalls == 3       \* UpdateStats calls routed to entries, in total
MaxThrows == 1      \* generations in which the backend throws

(* Program constants *)

MAX_SIZE == 8192
NULL == 0

Keys == 1 .. NumKeys

\* (uint64)-1
Sentinel == WordMod - 1

\* argument values of UpdateStats: the epochs, and (ticks, actual, total, prims)
Epochs == {1, 2, Sentinel}

StatArgs ==
    { [ticks |-> 1000, actual |-> 10, total |-> 12, prims |-> 10],
      [ticks |-> 500, actual |-> 5, total |-> 5, prims |-> 5],
      [ticks |-> WordMod - 1, actual |-> -1, total |-> -1, prims |-> 0],
      [ticks |-> 1, actual |-> 2, total |-> 1, prims |-> 1] }

\* code bodies the backend can emit, and the size of each
Bodies == {"ret", "blend", "full", "over"}

SizeOf(body) ==
    CASE body = "ret"   -> 16
      [] body = "blend" -> MAX_SIZE - 1
      [] body = "full"  -> MAX_SIZE
      [] body = "over"  -> MAX_SIZE + 1

\* outcomes of `new CG(m_param, key, code_ptr, MAX_SIZE)`
CgOutcomes == [threw : {TRUE}, body : {"none"}] \cup [threw : {FALSE}, body : Bodies]

----------------------------------------------------------------------------
(* uint64 arithmetic *)

\* conversion of a signed int argument to uint64
IntToU64(i) == i % WordMod

\* uint64 += uint64
AddU64(a, b) == (a + b) % WordMod

\* uint64 * uint64 (the product is reduced in two halves to stay in range)
MulU64(a, b) ==
    LET x == a % WordMod
        y == b % WordMod
    IN ((((x * (y \div 256)) % WordMod) * 256) + x * (y % 256)) % WordMod

\* uint64 / uint64; `dz` is what a division by zero yields when it does not trap
DivU64(a, b, dz) == IF b = 0 THEN dz ELSE a \div b

----------------------------------------------------------------------------
(* GSCodeBuffer *)

ArenaBase == 1

\* void* GetBuffer(size_t size): start of the reserved region
GetBuffer(cb, size) == [ptr |-> ArenaBase + cb.pos, cb |-> [pos |-> cb.pos, reserved |-> size]]

\* void ReleaseBuffer(size_t size): commit the bytes used
ReleaseBuffer(cb, size) == [pos |-> cb.pos + size, reserved |-> 0]

----------------------------------------------------------------------------
(* GSFunctionMap *)

\* mutant: the frame of a new entry is left at the 0 of memset
NewActivePtr_zeroFrame ==
    [frame |-> 0, frames |-> 0, prims |-> 0,
     ticks |-> 0, actual |-> 0, total |-> 0, f |-> NULL]

\* new ActivePtr(); memset(p, 0, sizeof(*p)); p->frame = (uint64)-1;
NewActivePtr ==
    [frame |-> Sentinel, frames |-> 0, prims |-> 0,
     ticks |-> 0, actual |-> 0, total |-> 0, f |-> NULL]

\* mutant: the lookup never finds the key
IsCached_never(key) == FALSE

\* m_map_active.find(key) != m_map_active.end()
IsCached(key) == key \in DOMAIN m_map_active

\* m_map_active[key] = p
MapInsert(map, key, p) ==
    [k \in (DOMAIN map) \cup {key} |-> IF k = key THEN p ELSE map[k]]

\* mutant: the entry is inserted before GetDefaultFunction is called
InstallEntry_early(map, key, p, returned) == MapInsert(map, key, p)

\* mutant: m_active is not reset on entry
ActiveAfterLookup_stale(key, returned) == IF returned THEN key ELSE m_active

\* lines 73-77: p->f = GetDefaultFunction(key) comes before m_map_active[key] = p,
\* so the entry is inserted only when GetDefaultFunction returned
InstallEntry(map, key, p, returned) ==
    IF returned THEN MapInsert(map, key, p) ELSE map

\* lines 57, 63, 77: m_active = NULL on entry, then the entry found or inserted
ActiveAfterLookup(key, returned) == IF returned THEN key ELSE NULL

\* mutant: the period is counted on every call
MarkFrame_always(p, frame) ==
    [p EXCEPT !.frame = frame, !.frames = AddU64(p.frames, 1)]

\* mutant: the epoch counted is not remembered
MarkFrame_forgets(p, frame) ==
    IF p.frame # frame THEN [p EXCEPT !.frames = AddU64(p.frames, 1)] ELSE p

\* if (m_active->frame != frame) { m_active->frame = frame; m_active->frames++; }
MarkFrame(p, frame) ==
    IF p.frame # frame
    THEN [p EXCEPT !.frame = frame, !.frames = AddU64(p.frames, 1)]
    ELSE p

\* mutant: the fields are assigned, not accumulated
Accumulate_assign(p, ticks, actual, total, prims) ==
    [p EXCEPT !.prims  = IntToU64(prims),
              !.ticks  = ticks,
              !.actual = IntToU64(actual),
              !.total  = IntToU64(total)]

\* mutant: actual and total are added to each other's field
Accumulate_swapped(p, ticks, actual, total, prims) ==
    [p EXCEPT !.prims  = AddU64(p.prims, IntToU64(prims)),
              !.ticks  = AddU64(p.ticks, ticks),
              !.actual = AddU64(p.actual, IntToU64(total)),
              !.total  = AddU64(p.total, IntToU64(actual))]

\* mutant: total is added where actual should be
Accumulate_typo(p, ticks, actual, total, prims) ==
    [p EXCEPT !.prims  = AddU64(p.prims, IntToU64(prims)),
              !.ticks  = AddU64(p.ticks, ticks),
              !.actual = AddU64(p.actual, IntToU64(total)),
              !.total  = AddU64(p.total, IntToU64(total))]

\* m_active->prims += prims; ... ticks ... actual ... total
Accumulate(p, ticks, actual, total, prims) ==
    [p EXCEPT !.prims  = AddU64(p.prims, IntToU64(prims)),
              !.ticks  = AddU64(p.ticks, ticks),
              !.actual = AddU64(p.actual, IntToU64(actual)),
              !.total  = AddU64(p.total, IntToU64(total))]

\* ASSERT(m_active->total >= m_active->actual)
StatsAssert(p) == p.total >= p.actual

----------------------------------------------------------------------------
(* GSCodeGeneratorFunctionMap *)

\* m_cgmap.find(key) != m_cgmap.end()
InCgMap(key) == key \in DOMAIN m_cgmap

\* mutant: the bound itself is accepted
SizeAssert_inclusive(size) == size <= MAX_SIZE

\* ASSERT(cg->getSize() < MAX_SIZE)
SizeAssert(size) == size < MAX_SIZE

\* mutant: any function already generated is reused, whatever its key
GetDefaultFunction_anyKey(key, cg) ==
    IF m_cgmap # << >>
    THEN LET k0 == CHOOSE k \in DOMAIN m_cgmap : TRUE
         IN [status |-> "dedup", ret |-> m_cgmap[k0],
             cgmap |-> MapInsert(m_cgmap, key, m_cgmap[k0]), cb |-> m_cb,
             total_code_size |-> m_total_code_size, reserved |-> 0,
             committed |-> << >>, built |-> 0, size |-> 0]
    ELSE LET got == GetBuffer(m_cb, MAX_SIZE)
             size == IF cg.threw THEN 0 ELSE SizeOf(cg.body)
         IN IF cg.threw \/ ~(size < MAX_SIZE)
            THEN [status |-> IF cg.threw THEN "threw" ELSE "overflow", ret |-> NULL,
                  cgmap |-> m_cgmap, cb |-> got.cb,
                  total_code_size |-> m_total_code_size, reserved |-> 1,
                  committed |-> << >>, built |-> IF cg.threw THEN 0 ELSE 1,
                  size |-> size]
            ELSE [status |-> "generated", ret |-> got.ptr,
                  cgmap |-> MapInsert(m_cgmap, key, got.ptr),
                  cb |-> ReleaseBuffer(got.cb, size),
                  total_code_size |-> m_total_code_size + size, reserved |-> 1,
                  committed |-> << size >>, built |-> 1, size |-> size]

\* mutant: the size of the reservation is added instead of the size emitted
AddCodeSize_reserved(total, size) == total + MAX_SIZE

\* m_total_code_size += cg->getSize()
AddCodeSize(total, size) == total + size

\* mutant: the function generated is not recorded in the dedup index
StoreFunction_skipped(cgmap, key, ret) == cgmap

\* m_cgmap[key] = ret
StoreFunction(cgmap, key, ret) == MapInsert(cgmap, key, ret)

\* VALUE GetDefaultFunction(KEY key), with `cg` the outcome of the backend.
\* status: "dedup" (found in m_cgmap), "threw" (the constructor threw),
\* "overflow" (the size assertion failed), "generated".
GetDefaultFunction(key, cg) ==
    IF InCgMap(key)
    THEN [status |-> "dedup", ret |-> m_cgmap[key], cgmap |-> m_cgmap, cb |-> m_cb,
          total_code_size |-> m_total_code_size, reserved |-> 0, committed |-> << >>,
          built |-> 0, size |-> 0]
    ELSE LET got == GetBuffer(m_cb, MAX_SIZE) IN
         IF cg.threw
         THEN [status |-> "threw", ret |-> NULL, cgmap |-> m_cgmap, cb |-> got.cb,
               total_code_size |-> m_total_code_size, reserved |-> 1,
               committed |-> << >>, built |-> 0, size |-> 0]
         ELSE LET size == SizeOf(cg.body) IN
              IF ~SizeAssert(size)
              THEN [status |-> "overflow", ret |-> NULL, cgmap |-> m_cgmap, cb |-> got.cb,
                    total_code_size |-> m_total_code_size, reserved |-> 1,
                    committed |-> << >>, built |-> 1, size |-> size]
              ELSE [status |-> "generated", ret |-> got.ptr,
                    cgmap |-> StoreFunction(m_cgmap, key, got.ptr),
                    cb |-> ReleaseBuffer(got.cb, size),
                    total_code_size |-> AddCodeSize(m_total_code_size, size),
                    reserved |-> 1,
                    committed |-> << size >>, built |-> 1, size |-> size]

----------------------------------------------------------------------------
(* Initial state: both maps empty, m_active(NULL), m_total_code_size(0) *)

Init ==
    /\ m_map_active = << >>
    /\ m_active = NULL
    /\ m_cgmap = << >>
    /\ m_cb = [pos |-> 0, reserved |-> 0]
    /\ m_total_code_size = 0
    /\ fault = "none"
    /\ last = [op |-> "new", key |-> NULL, ret |-> NULL, outcome |-> "none", size |-> 0]
    /\ printed = {}
    /\ h_gen = [k \in Keys |-> 0]
    /\ h_emit = [k \in Keys |-> 0]
    /\ h_body = [k \in Keys |-> "none"]
    /\ h_returned = [k \in Keys |-> NULL]
    /\ h_reserves = 0
    /\ h_commits = << >>
    /\ h_epochs = [k \in Keys |-> << >>]
    /\ h_sum = [k \in Keys |-> [ticks |-> 0, actual |-> 0, total |-> 0, prims |-> 0]]
    /\ h_throws = 0
    /\ h_lookup = [key |-> NULL, ok |-> FALSE, okkey |-> NULL]

----------------------------------------------------------------------------
(* VALUE operator[](KEY key) *)

Lookup(key, cg) ==
    /\ fault = "none"
    /\ cg.threw => h_throws < MaxThrows
    /\ printed' = {}
    /\ IF IsCached(key)
       THEN \* lines 57-64, 80
            /\ m_active' = ActiveAfterLookup(key, TRUE)
            /\ last' = [op |-> "Lookup", key |-> key, ret |-> m_map_active[key].f,
                        outcome |-> "hit", size |-> 0]
            /\ h_returned' = [h_returned EXCEPT ![key] =
                                 IF @ = NULL THEN m_map_active[key].f ELSE @]
            /\ h_lookup' = [key |-> key, ok |-> TRUE, okkey |-> key]
            /\ UNCHANGED << m_map_active, m_cgmap, m_cb, m_total_code_size, fault,
                            h_gen, h_emit, h_body, h_reserves, h_commits, h_throws >>
       ELSE \* lines 57-60, 65-80
            LET r == GetDefaultFunction(key, cg)
                p == [NewActivePtr EXCEPT !.f = r.ret]
                returned == r.status \in {"generated", "dedup"}
            IN /\ m_cgmap' = r.cgmap
               /\ m_cb' = r.cb
               /\ m_total_code_size' = r.total_code_size
               /\ h_gen' = [h_gen EXCEPT ![key] = @ + 1]
               /\ h_emit' = [h_emit EXCEPT ![key] = @ + r.built]
               /\ h_reserves' = h_reserves + r.reserved
               /\ h_commits' = h_commits \o r.committed
               /\ h_throws' = h_throws + (IF r.status = "threw" THEN 1 ELSE 0)
               /\ h_body' = [h_body EXCEPT ![key] =
                                IF r.status = "generated" THEN cg.body ELSE @]
               /\ fault' = IF r.status = "overflow" THEN "GenerationOverflow" ELSE fault
               /\ m_map_active' = InstallEntry(m_map_active, key, p, returned)
               /\ m_active' = ActiveAfterLookup(key, returned)
               /\ h_returned' = [h_returned EXCEPT ![key] =
                                    IF returned /\ @ = NULL THEN p.f ELSE @]
               /\ h_lookup' = [key |-> key, ok |-> returned,
                               okkey |-> IF returned THEN key ELSE h_lookup.okkey]
               /\ last' = [op |-> "Lookup", key |-> key,
                           ret |-> (IF returned THEN p.f ELSE NULL),
                           outcome |-> r.status, size |-> r.size]
    /\ UNCHANGED << h_epochs, h_sum >>

----------------------------------------------------------------------------
(* void UpdateStats(uint64 frame, uint64 ticks, int actual, int total, int prims) *)

RoutedCalls == LET n[S \in SUBSET Keys] ==
                     IF S = {} THEN 0
                     ELSE LET k == CHOOSE x \in S : TRUE
                          IN Len(h_epochs[k]) + n[S \ {k}]
               IN n[Keys]

\* lines 87-98: the body of `if (m_active)`
RecordStats(frame, ticks, actual, total, prims) ==
    LET p == Accumulate(MarkFrame(m_map_active[m_active], frame),
                        ticks, actual, total, prims)
    IN /\ RoutedCalls < MaxCalls
       /\ m_map_active' = [m_map_active EXCEPT ![m_active] = p]
       /\ fault' = IF StatsAssert(p) THEN fault ELSE "ContractViolation"
       /\ h_epochs' = [h_epochs EXCEPT ![m_active] = Append(@, frame)]
       /\ h_sum' = [h_sum EXCEPT ![m_active] =
                       [ticks  |-> @.ticks + ticks,
                        actual |-> @.actual + actual,
                        total  |-> @.total + total,
                        prims  |-> @.prims + prims]]
       /\ last' = [op |-> "UpdateStats", key |-> m_active, ret |-> NULL,
                   outcome |-> "recorded", size |-> 0]

\* mutant: the null check is missing and the null pointer is dereferenced
SkipStats_unchecked ==
    /\ last' = [op |-> "UpdateStats", key |-> NULL, ret |-> NULL,
                outcome |-> "recorded", size |-> 0]
    /\ fault' = "NullDereference"
    /\ UNCHANGED << m_map_active, h_epochs, h_sum >>

\* line 85: `if (m_active)` is false, nothing is read or written
SkipStats ==
    /\ last' = [op |-> "UpdateStats", key |-> NULL, ret |-> NULL,
                outcome |-> "noop", size |-> 0]
    /\ UNCHANGED << m_map_active, fault, h_epochs, h_sum >>

UpdateStats(frame, ticks, actual, total, prims) ==
    /\ fault = "none"
    /\ printed' = {}
    /\ IF m_active # NULL
       THEN RecordStats(frame, ticks, actual, total, prims)
       ELSE SkipStats
    /\ UNCHANGED << m_active, m_cgmap, m_cb, m_total_code_size, h_gen, h_emit,
                    h_body, h_returned, h_reserves, h_commits, h_throws, h_lookup >>

----------------------------------------------------------------------------
(* virtual void PrintStats() *)

\* lines 104-114: the sum of ticks / frames over the entries with frames != 0
Ttpf(map) ==
    LET s[S \in SUBSET DOMAIN map] ==
          IF S = {} THEN 0
          ELSE LET k == CHOOSE x \in S : TRUE
               IN AddU64(s[S \ {k}],
                         IF map[k].frames # 0 THEN map[k].ticks \div map[k].frames ELSE 0)
    IN s[DOMAIN map]

\* line 130: if (p->frames && p->actual && ttpf)
HasRow(p, ttpf) == p.frames # 0 /\ p.actual # 0 /\ ttpf # 0

\* lines 144, 145 divide by p->prims and p->total
RowDividesByZero(p) == p.prims = 0 \/ p.total = 0

\* mutant: the share and the overdraw are scaled to percent, not to hundredths
Row_percent(key, p, ttpf, tps, dz) ==
    LET tpp == p.ticks \div p.actual
        tpf == p.ticks \div p.frames
        ppf == p.actual \div p.frames
    IN [key |-> key,
        frames |-> p.frames,
        prims_f |-> p.prims \div p.frames,
        pct |-> MulU64(tpf, 100) \div ttpf,
        us_f |-> MulU64(tpf, 1000 * 1000) \div tps,
        ns_px |-> MulU64(tpp, MulU64(1000, 1000 * 1000)) \div tps,
        px_f |-> ppf,
        px_prim |-> DivU64(p.actual, p.prims, dz),
        overdraw |-> DivU64(MulU64((p.total - p.actual) % WordMod, 100), p.total, dz)]

\* lines 132-145: the values printed for one entry
Row(key, p, ttpf, tps, dz) ==
    LET tpp == p.ticks \div p.actual
        tpf == p.ticks \div p.frames
        ppf == p.actual \div p.frames
    IN [key |-> key,
        frames |-> p.frames,
        prims_f |-> p.prims \div p.frames,
        pct |-> MulU64(tpf, 10000) \div ttpf,
        us_f |-> MulU64(tpf, 1000 * 1000) \div tps,
        ns_px |-> MulU64(tpp, MulU64(1000, 1000 * 1000)) \div tps,
        px_f |-> ppf,
        px_prim |-> DivU64(p.actual, p.prims, dz),
        overdraw |-> DivU64(MulU64((p.total - p.actual) % WordMod, 10000), p.total, dz)]

\* mutant: the processed items per period are printed after the period count
RowColumns_swapped(r) ==
    << r.key, r.frames, r.px_f, r.pct, r.us_f, r.ns_px, r.prims_f, r.px_prim,
       r.overdraw >>

\* lines 136-145: the values of a row in the order printf receives them
RowColumns(r) ==
    << r.key, r.frames, r.prims_f, r.pct, r.us_f, r.ns_px, r.px_f, r.px_prim,
       r.overdraw >>

\* GetTickFrequency()
TickFrequencies == {1000}

\* `traps`: whether a division by zero stops the process (it does on x86) or
\* yields 0 (as on AArch64)
PrintStats(tps, traps) ==
    /\ fault = "none"
    /\ LET ttpf == Ttpf(m_map_active)
           rows == {k \in DOMAIN m_map_active : HasRow(m_map_active[k], ttpf)}
           divz == \E k \in rows : RowDividesByZero(m_map_active[k])
       IN /\ traps => divz
          /\ IF divz /\ traps
             THEN /\ fault' = "DivideByZero"
                  /\ printed' = {}
             ELSE /\ fault' = fault
                  /\ printed' = {Row(k, m_map_active[k], ttpf, tps, 0) : k \in rows}
    /\ last' = [op |-> "PrintStats", key |-> NULL, ret |-> NULL,
                outcome |-> "printed", size |-> 0]
    /\ UNCHANGED << m_map_active, m_active, m_cgmap, m_cb, m_total_code_size,
                    h_gen, h_emit, h_body, h_returned, h_reserves, h_commits,
                    h_epochs, h_sum, h_throws, h_lookup >>

----------------------------------------------------------------------------

\* One call of the public interface, with inputs drawn from the given sets
Call(keys, cgs, epochs, args) ==
    \/ \E key \in keys, cg \in cgs : Lookup(key, cg)
    \/ \E frame \in epochs, a \in args :
          UpdateStats(frame, a.ticks, a.actual, a.total, a.prims)
    \/ \E tps \in TickFrequencies, traps \in BOOLEAN : PrintStats(tps, traps)

\* Every key and backend outcome; one epoch and one argument tuple
GenArgs == {a \in StatArgs : a.ticks = 1000}

Next == Call(Keys, CgOutcomes, {1}, GenArgs)

Spec == Init /\ [][Next]_vars

\* Two keys and a backend that emits "ret"; every epoch and argument tuple
StatsKeys == {1, 2}

StatsCg == {cg \in CgOutcomes : cg.body = "ret"}

NextStats == Call(StatsKeys, StatsCg, Epochs, StatArgs)

SpecStats == Init /\ [][NextStats]_vars

\* Two keys and a backend that emits "ret"; two epochs, and argument tuples that
\* keep tpf * 10000 within the word (ticks 6 and 3), with no work units
\* (prims 0), and with nothing processed (actual 0)
PrintEpochs == {1, 2}

PrintArgs ==
    { [ticks |-> 6, actual |-> 10, total |-> 12, prims |-> 2],
      [ticks |-> 3, actual |-> 5, total |-> 5, prims |-> 5],
      [ticks |-> 1000, actual |-> 10, total |-> 12, prims |-> 0],
      [ticks |-> 4, actual |-> 0, total |-> 3, prims |-> 1] }

NextPrint == Call(StatsKeys, StatsCg, PrintEpochs, PrintArgs)

SpecPrint == Init /\ [][NextPrint]_vars

----------------------------------------------------------------------------
(* Properties *)

Cached == DOMAIN m_map_active

\* the step is a call of operator[] / of UpdateStats (a call that changes nothing
\* at all is a stuttering step, which every action property admits)
LookupStep == last'.op = "Lookup"
UpdateStep == last'.op = "UpdateStats"

\* C1: once operator[](k) has returned a function f, every later operator[](k)
\* returns the same f as a hit, GetDefaultFunction is not called again for k,
\* and the entry for k stays in the table with its function field unchanged.
C1_IdempotentLookup ==
    [][\A k \in Keys :
         h_returned[k] # NULL =>
           /\ h_gen'[k] = h_gen[k]
           /\ k \in Cached /\ k \in Cached'
           /\ m_map_active'[k].f = m_map_active[k].f
           /\ m_map_active[k].f = h_returned[k]
           /\ (LookupStep /\ last'.key = k =>
                 last'.ret = h_returned[k] /\ last'.outcome = "hit")]_vars

\* C1 witness: operator[] has just returned, as a hit, the function it returned
\* for the key before, after the one generation the key ever had
C1_Witness ==
    /\ last.op = "Lookup" /\ last.outcome = "hit"
    /\ last.ret = h_returned[last.key] /\ last.ret # NULL
    /\ h_gen[last.key] = 1
    /\ Cardinality(Cached) = 2

\* C2 as stated: two distinct cached keys whose generated bodies are
\* byte-identical share one function, and one generation event served both.
C2_DedupByBody ==
    \A k1, k2 \in Cached :
       (k1 # k2 /\ h_body[k1] = h_body[k2] /\ Cached = {k1, k2} /\ h_throws = 0) =>
          /\ m_map_active[k1].f = m_map_active[k2].f
          /\ h_reserves = 1 /\ Len(h_commits) = 1

\* C2 amended: the dedup index is keyed by the key, not by the generated bytes:
\* every cached key had its own generation event (one backend construction and
\* one commit each), also when two keys generate byte-identical bodies.
C2_OneGenerationPerKey ==
    /\ \A k \in Cached : h_emit[k] = 1 /\ h_body[k] # "none"
    /\ Len(h_commits) = Cardinality(Cached)
    /\ h_reserves >= Cardinality(Cached)

\* C2 witness: two distinct keys are cached with byte-identical bodies
C2_Witness ==
    \E k1, k2 \in Cached :
       /\ k1 # k2 /\ h_body[k1] = h_body[k2]
       /\ h_emit[k1] = 1 /\ h_emit[k2] = 1 /\ Len(h_commits) = 2

\* the entry of key k before and after the step
Entry(k) == m_map_active[k]
EntryAfter(k) == m_map_active'[k]

\* the arguments of the UpdateStats call the step routed to key k, read off
\* the history (0 when the step routed no call to k)
ArgTicks(k) == h_sum'[k].ticks - h_sum[k].ticks
ArgActual(k) == h_sum'[k].actual - h_sum[k].actual
ArgTotal(k) == h_sum'[k].total - h_sum[k].total
RoutedTo(k) == Len(h_epochs'[k]) = Len(h_epochs[k]) + 1

\* the distinct values of a sequence, and its runs of equal consecutive values
Distinct(seq) == {seq[i] : i \in 1 .. Len(seq)}
Runs(seq) == Cardinality({i \in 1 .. Len(seq) : i = 1 \/ seq[i] # seq[i - 1]})

\* C3 as stated: frames never exceeds the number of distinct epoch values
\* passed to the entry, in whatever order the epochs come.
C3_AtMostDistinctEpochs ==
    \A k \in Cached : Entry(k).frames <= Cardinality(Distinct(h_epochs[k]))

\* C3 amended: frames never decreases and grows by at most 1 per UpdateStats
\* call routed to the entry, and only when the epoch differs from the epoch of
\* the previous call routed to it; it never exceeds the number of runs of equal
\* consecutive epochs (which is the number of distinct epochs only when no
\* epoch recurs after a different one: 1,2,1 gives 3).
C3_AtMostOncePerEpochChange ==
    [][\A k \in Cached :
         /\ k \in Cached'
         /\ EntryAfter(k).frames \in {Entry(k).frames, Entry(k).frames + 1}
         /\ EntryAfter(k).frames = Entry(k).frames + 1 =>
               /\ UpdateStep /\ RoutedTo(k)
               /\ Runs(h_epochs'[k]) = Runs(h_epochs[k]) + 1
         /\ EntryAfter(k).frames <= Runs(h_epochs'[k])]_vars

\* C3 witness: the epochs 1, 2, 1 were routed to one entry
C3_Witness ==
    \E k \in Cached : h_epochs[k] = << 1, 2, 1 >> /\ Entry(k).frames = 3

\* C4 as stated: ticks, actual and total never decrease, whatever the arguments.
C4_NeverDecrease ==
    [][\A k \in Cached :
         /\ EntryAfter(k).ticks >= Entry(k).ticks
         /\ EntryAfter(k).actual >= Entry(k).actual
         /\ EntryAfter(k).total >= Entry(k).total]_vars

\* C4 amended: ticks, actual and total change only in an UpdateStats call routed
\* to the entry, and each does not decrease in a call whose argument for it is
\* non-negative and whose addition does not wrap around the word.
C4_NondecreasingWithoutWrap ==
    [][\A k \in Cached :
         /\ k \in Cached'
         /\ ( \/ EntryAfter(k).ticks # Entry(k).ticks
              \/ EntryAfter(k).actual # Entry(k).actual
              \/ EntryAfter(k).total # Entry(k).total )
               => UpdateStep /\ RoutedTo(k) /\ m_active = k
         /\ (ArgTicks(k) >= 0 /\ Entry(k).ticks + ArgTicks(k) < WordMod)
               => EntryAfter(k).ticks >= Entry(k).ticks
         /\ (ArgActual(k) >= 0 /\ Entry(k).actual + ArgActual(k) < WordMod)
               => EntryAfter(k).actual >= Entry(k).actual
         /\ (ArgTotal(k) >= 0 /\ Entry(k).total + ArgTotal(k) < WordMod)
               => EntryAfter(k).total >= Entry(k).total]_vars

\* C4 witness: two calls with non-negative arguments and no wrap were routed
\* to one entry, and its accumulators grew
C4_Witness ==
    \E k \in Cached :
       /\ Len(h_epochs[k]) = 2
       /\ h_sum[k].ticks = 1500 /\ Entry(k).ticks = 1500
       /\ Entry(k).actual = 15 /\ Entry(k).total = 17

NoLookupYet == \A k \in Keys : h_gen[k] = 0

\* C6: while no Lookup has been performed, UpdateStats is a no-op: the table
\* stays empty, no entry is created or made active, no statistics are
\* recorded and no fault is raised.
C6_UpdateStatsBeforeLookupIsNoOp ==
    NoLookupYet =>
       /\ m_map_active = << >>
       /\ m_active = NULL
       /\ fault = "none"
       /\ \A k \in Keys : h_epochs[k] = << >>
       /\ last.op = "UpdateStats" => last.outcome = "noop"

\* C6 witness: UpdateStats has been called on a cache that never saw a Lookup
C6_Witness == NoLookupYet /\ last.op = "UpdateStats" /\ m_map_active = << >>

\* C7: a generation whose emitted size is >= MAX_SIZE (MAX_SIZE included)
\* raises the overflow fault, with nothing committed to the arena and nothing
\* stored in the dedup index or the table; a size < MAX_SIZE raises no fault
\* and is committed.
C7_ArenaBoundEnforced ==
    [][\A k \in Keys :
         h_emit'[k] = h_emit[k] + 1 =>
           /\ LookupStep /\ last'.key = k /\ last'.size > 0
           /\ last'.size >= MAX_SIZE =>
                 /\ fault' = "GenerationOverflow"
                 /\ last'.outcome = "overflow"
                 /\ m_cb'.pos = m_cb.pos
                 /\ h_commits' = h_commits
                 /\ m_total_code_size' = m_total_code_size
                 /\ m_cgmap' = m_cgmap
                 /\ m_map_active' = m_map_active
           /\ last'.size < MAX_SIZE =>
                 /\ fault' = "none"
                 /\ last'.outcome = "generated"
                 /\ h_commits' = Append(h_commits, last'.size)
                 /\ k \in DOMAIN m_cgmap' /\ k \in Cached']_vars

\* C7 witness: a backend that emitted exactly MAX_SIZE bytes raised the fault
C7_Witness ==
    /\ fault = "GenerationOverflow"
    /\ last.op = "Lookup" /\ last.size = MAX_SIZE
    /\ last.key \notin Cached

\* the call just made was an operator[] that did not return a function
FailedLookup(l) == l.op = "Lookup" /\ l.outcome \in {"threw", "overflow"}

\* C8: a Lookup(k) miss whose generation fails installs nothing for k in the
\* table or the dedup index, leaves the existing entries unchanged and leaves no
\* entry active; an UpdateStats that follows changes nothing, and a Lookup(k)
\* that follows is again a miss that runs generation again.
C8_NoEntryOnFailure ==
    [][/\ (LookupStep /\ FailedLookup(last')) =>
            /\ m_map_active' = m_map_active
            /\ m_cgmap' = m_cgmap
            /\ m_active' = NULL
            /\ last'.key \notin Cached' /\ last'.key \notin DOMAIN m_cgmap'
            /\ h_returned' = h_returned
       /\ (FailedLookup(last) /\ UpdateStep) =>
            /\ last'.outcome = "noop"
            /\ m_map_active' = m_map_active
            /\ h_epochs' = h_epochs /\ h_sum' = h_sum
       /\ (FailedLookup(last) /\ LookupStep /\ last'.key = last.key) =>
            /\ last'.outcome # "hit"
            /\ h_gen'[last.key] = h_gen[last.key] + 1
            /\ h_reserves' = h_reserves + 1]_vars

\* C8 witness: with an entry cached, a generation failed and the UpdateStats
\* that followed was a no-op
C8_Witness ==
    /\ h_throws > 0 /\ ~h_lookup.ok
    /\ last.op = "UpdateStats" /\ last.outcome = "noop"
    /\ Cardinality(Cached) = 1 /\ h_lookup.key \notin Cached

\* C9 as stated: every UpdateStats call modifies the entry of the most recent
\* successful Lookup.
C9_RoutedToLastSuccessfulLookup ==
    [][(UpdateStep /\ h_lookup.okkey # NULL) =>
          /\ RoutedTo(h_lookup.okkey)
          /\ EntryAfter(h_lookup.okkey) # Entry(h_lookup.okkey)]_vars

\* C9 amended: an UpdateStats call modifies the statistics of at most one
\* entry: the entry of the most recent Lookup when that Lookup returned a
\* function, and none when no Lookup was made or the most recent one failed.
\* It leaves every other entry, every function field and the key set
\* unchanged; every Lookup reassigns the active entry (to its key, or to none
\* when it fails).
C9_RoutedToLastLookup ==
    [][/\ UpdateStep =>
            /\ Cached' = Cached
            /\ \A k \in Cached :
                  /\ EntryAfter(k).f = Entry(k).f
                  /\ IF h_lookup.ok /\ k = h_lookup.key
                     THEN RoutedTo(k) /\ EntryAfter(k) # Entry(k)
                     ELSE ~RoutedTo(k) /\ EntryAfter(k) = Entry(k)
       /\ LookupStep =>
            m_active' = IF FailedLookup(last') THEN NULL ELSE last'.key]_vars

\* C9 witness: with two entries cached, a call was recorded in the entry of the
\* most recent Lookup while the other entry holds statistics of its own
C9_Witness ==
    /\ last.op = "UpdateStats" /\ last.outcome = "recorded"
    /\ Cardinality(Cached) = 2
    /\ h_lookup.ok /\ last.key = h_lookup.key
    /\ \A k \in Cached : Len(h_epochs[k]) >= 1

\* C10: every accumulator of an entry equals the sum, modulo the word range,
\* of the corresponding arguments of the calls routed to it since its creation.
C10_AccumulatorsAreSums ==
    \A k \in Cached :
       /\ Entry(k).ticks = h_sum[k].ticks % WordMod
       /\ Entry(k).actual = h_sum[k].actual % WordMod
       /\ Entry(k).total = h_sum[k].total % WordMod
       /\ Entry(k).prims = h_sum[k].prims % WordMod

\* C10 witness: (1000, 10, 12) then (500, 5, 5) in one epoch gives 1500, 15, 17
C10_Witness ==
    \E k \in Cached :
       /\ h_epochs[k] = << 1, 1 >>
       /\ Entry(k).frames = 1 /\ Entry(k).ticks = 1500
       /\ Entry(k).actual = 15 /\ Entry(k).total = 17 /\ Entry(k).prims = 15

\* a sequence of epochs that never steps back
NonDecreasing(seq) == \A i \in 1 .. Len(seq) : i = 1 \/ seq[i - 1] <= seq[i]

\* C11: when the epochs routed to an entry are non-decreasing and all below
\* the sentinel, frames is the number of distinct epochs routed to it,
\* whatever was looked up or recorded for other keys in between.
C11_DistinctNondecreasingEpochs ==
    \A k \in Cached :
       (NonDecreasing(h_epochs[k]) /\ Sentinel \notin Distinct(h_epochs[k])) =>
          Entry(k).frames = Cardinality(Distinct(h_epochs[k]))

\* C11 witness: epochs 1 then 2 routed to one entry count 2, with the other
\* key's entry used in epoch 1 as well
C11_Witness ==
    \E k1, k2 \in Cached :
       /\ k1 # k2 /\ h_epochs[k1] = << 1, 2 >> /\ Entry(k1).frames = 2
       /\ h_epochs[k2] = << 1 >> /\ Entry(k2).frames = 1 /\ m_active = k1

\* C15 as stated: an entry to which an UpdateStats call has been routed has
\* frames >= 1, whatever the epoch.
C15_UsedEntryHasPeriod ==
    \A k \in Cached : Len(h_epochs[k]) >= 1 => Entry(k).frames >= 1

\* the sum of a sequence of sizes
SumOf(seq) ==
    LET s[i \in 0 .. Len(seq)] == IF i = 0 THEN 0 ELSE s[i - 1] + seq[i]
    IN s[Len(seq)]

\* C16: a generation event reserves MAX_SIZE bytes once and, when the backend
\* was constructed and its size accepted, commits the emitted size once and
\* stores the function; a generation that fails has reserved and committed
\* nothing.  The reservations are the commits plus the failed generations, so
\* without failures reservations = commits = keys generated, and
\* m_total_code_size is the sum of the committed sizes.
C16_ReserveEmitCommit ==
    /\ [][\A k \in Keys :
            h_gen'[k] = h_gen[k] + 1 =>
              /\ h_reserves' = h_reserves + 1
              /\ IF last'.outcome = "generated"
                 THEN /\ h_emit'[k] = h_emit[k] + 1
                      /\ h_commits' = Append(h_commits, last'.size)
                      /\ m_cb'.pos = m_cb.pos + last'.size
                      /\ m_cb'.reserved = 0
                      /\ last'.ret = ArenaBase + m_cb.pos
                      /\ m_cgmap'[k] = last'.ret
                 ELSE /\ h_commits' = h_commits
                      /\ m_cb'.pos = m_cb.pos
                      /\ m_cb'.reserved = MAX_SIZE
                      /\ m_cgmap' = m_cgmap]_vars
    /\ [](/\ m_total_code_size = SumOf(h_commits)
          /\ Len(h_commits) = Cardinality(DOMAIN m_cgmap)
          /\ h_reserves = Len(h_commits) + h_throws
                          + (IF fault = "GenerationOverflow" THEN 1 ELSE 0))

\* C16 witness: two keys generated, with different sizes, and no failure
C16_Witness ==
    /\ h_throws = 0 /\ fault = "none"
    /\ Len(h_commits) = 2 /\ h_commits[1] # h_commits[2]
    /\ h_reserves = 2 /\ Cardinality(DOMAIN m_cgmap) = 2
    /\ m_total_code_size = h_commits[1] + h_commits[2]

\* C17: the dedup index and the table hold the same keys with the same
\* functions in every state, so GetDefaultFunction, which is called only for a
\* key missing from the table, never finds its key in the dedup index.
C17_DedupIndexMirrorsTable ==
    /\ DOMAIN m_cgmap = Cached
    /\ \A k \in Cached : m_cgmap[k] = Entry(k).f
    /\ last.outcome # "dedup"

\* C17 witness: both maps hold two keys after a Lookup returned
C17_Witness ==
    /\ last.op = "Lookup" /\ last.outcome \in {"hit", "generated"}
    /\ Cardinality(Cached) = 2 /\ Cardinality(DOMAIN m_cgmap) = 2

\* C18: a Lookup changes no statistics.  A hit leaves the table as it is; a
\* miss that returns adds one entry, with all counters 0, frame the sentinel
\* and f the function returned, and leaves the other entries as they are.  In
\* both cases the entry becomes the active one.
C18_LookupLeavesStatistics ==
    [][LookupStep =>
         /\ h_epochs' = h_epochs /\ h_sum' = h_sum
         /\ \A k \in Cached : k \in Cached' /\ EntryAfter(k) = Entry(k)
         /\ last'.outcome = "hit" =>
               /\ m_map_active' = m_map_active
               /\ m_active' = last'.key
         /\ last'.outcome = "generated" =>
               /\ Cached' = Cached \cup {last'.key} /\ last'.key \notin Cached
               /\ EntryAfter(last'.key) =
                     [frame |-> Sentinel, frames |-> 0, prims |-> 0, ticks |-> 0,
                      actual |-> 0, total |-> 0, f |-> last'.ret]
               /\ m_active' = last'.key]_vars

\* C18 witness: a miss added a zeroed entry beside an entry that holds statistics
C18_Witness ==
    /\ last.op = "Lookup" /\ last.outcome = "generated"
    /\ Entry(last.key).frames = 0 /\ Entry(last.key).frame = Sentinel
    /\ \E k \in Cached : k # last.key /\ Entry(k).ticks > 0 /\ Entry(k).frames = 1

\* the keys PrintStats has a row for, and the keys of the rows it printed
RowKeys ==
    {k \in Cached : Entry(k).frames # 0 /\ Entry(k).actual # 0}
PrintedKeys == {r.key : r \in printed}

\* ticks per period of an entry, and their exact sum over the table
Tpf(k) == IF Entry(k).frames # 0 THEN Entry(k).ticks \div Entry(k).frames ELSE 0
GrandTotal ==
    LET s[S \in SUBSET Cached] ==
          IF S = {} THEN 0
          ELSE LET k == CHOOSE x \in S : TRUE IN Tpf(k) + s[S \ {k}]
    IN s[Cached]

\* C14 as stated: PrintStats never divides by zero: every divisor of every row
\* it computes is nonzero.
C14_NoDivisionByZero ==
    /\ fault # "DivideByZero"
    /\ last.op = "PrintStats" =>
          \A k \in RowKeys :
             GrandTotal % WordMod # 0 =>
                /\ Entry(k).frames # 0 /\ Entry(k).actual # 0
                /\ Entry(k).prims # 0 /\ Entry(k).total # 0

\* C12 as stated: when the grand total is nonzero, PrintStats presents a row for
\* exactly the keys with nonzero frames and nonzero actual.
C12_RowsForUsedKeys ==
    (last.op = "PrintStats" /\ GrandTotal % WordMod # 0) => PrintedKeys = RowKeys

\* C13 as stated: the column after the period count is actual / frames.
C13_ThirdColumnIsProcessedPerPeriod ==
    \A r \in printed :
       RowColumns(r)[3] = Entry(r.key).actual \div Entry(r.key).frames

\* C13 amended: the column after the period count is the work units per
\* period, prims / frames; the processed items per period, actual / frames,
\* are the seventh column.
C13_ThirdColumnIsPrimsPerPeriod ==
    \A r \in printed :
       /\ RowColumns(r)[1] = r.key /\ r.key \in Cached
       /\ RowColumns(r)[2] = Entry(r.key).frames
       /\ RowColumns(r)[3] = Entry(r.key).prims \div Entry(r.key).frames
       /\ RowColumns(r)[7] = Entry(r.key).actual \div Entry(r.key).frames

\* C13 witness: a printed row whose work units per period differ from its
\* processed items per period, with a nonzero work-unit count
C13_Witness ==
    \E r \in printed :
       /\ Entry(r.key).prims # 0
       /\ RowColumns(r)[3] # RowColumns(r)[7]
       /\ RowColumns(r)[7] = 15

\* the words behind the two percentages of the row of key k
ShareWord(k) == (Tpf(k) * 10000) % WordMod
WasteWord(k) == (((Entry(k).total - Entry(k).actual) % WordMod) * 10000) % WordMod

\* no product or sum of the row of key k wrapped around the word
NoWrap(k) ==
    /\ Entry(k).total >= Entry(k).actual
    /\ (Entry(k).total - Entry(k).actual) * 10000 < WordMod
    /\ Tpf(k) * 10000 < WordMod
    /\ GrandTotal < WordMod

SumPct(rows) ==
    LET s[S \in SUBSET rows] ==
          IF S = {} THEN 0
          ELSE LET r == CHOOSE x \in S : TRUE IN r.pct + s[S \ {r}]
    IN s[rows]

\* C19: in every printed row the share is floor(tpf * 10000 / grand total) and
\* the overdraw floor((total - actual) * 10000 / total), both in word
\* arithmetic; without wrap each lies in 0 .. 10000 and the shares of the
\* printed rows add up to at most 10000.
C19_SharesAndOverdraw ==
    \A r \in printed :
       /\ r.key \in Cached /\ GrandTotal % WordMod # 0
       /\ r.pct = ShareWord(r.key) \div (GrandTotal % WordMod)
       /\ Entry(r.key).total # 0
       /\ r.overdraw = WasteWord(r.key) \div Entry(r.key).total
       /\ NoWrap(r.key) => r.pct \in 0 .. 10000 /\ r.overdraw \in 0 .. 10000
       /\ (\A q \in printed : NoWrap(q.key)) => SumPct(printed) <= 10000

\* C19 witness: two rows without wrap, one with total 17 and actual 15 and so
\* an overdraw of 1176, whose shares 5714 and 4285 add up to 9999
C19_Witness ==
    \E r, q \in printed :
       /\ r.key # q.key /\ NoWrap(r.key) /\ NoWrap(q.key)
       /\ Entry(r.key).total = 17 /\ Entry(r.key).actual = 15
       /\ r.overdraw = 1176
       /\ r.pct = 5714 /\ q.pct = 4285

============================================================================
